---- MODULE Spec2Model ----
(***************************************************************************)
(* Model of SimpLL's DifferentialFunctionComparator: the comparison        *)
(* functions that override LLVM's FunctionComparator to tolerate           *)
(* recompilation differences between two versions of a function.           *)
(*                                                                         *)
(* Comparison results are the integers the code returns: 0 is "equal",     *)
(* anything else is "not equal".  A run that did not return (a null        *)
(* dereference, a failed assertion) ends at pc = "fault".                  *)
(***************************************************************************)
EXTENDS Integers, Sequences, FiniteSets, TLC

VARIABLES
    controlFlowOnly,   \* the comparison mode flag
    StructFieldNames,  \* DI->StructFieldNames: <<struct type, index>> -> name
    MacroConstantMap,  \* DI->MacroConstantMap: left constant -> macro text
    LayoutL, LayoutR,  \* data layouts of the left and the right module
    BBL, BBR,          \* the two basic blocks (sequences of instructions)
    InstL, InstR,      \* cursors of cmpBasicBlocks into BBL and BBR
    sn_mapL, sn_mapR,  \* serial-number maps of the two sides
    tryInline,         \* ModComparator->tryInline, the inline-request slot
    pc,                \* position of the running comparison
    result,            \* value returned by the comparison, once pc = "done"
    argL, argR,        \* operands of a comparison applied on its own
    hist               \* observations of the run (what was called, and how)

vars == <<controlFlowOnly, StructFieldNames, MacroConstantMap, LayoutL,
          LayoutR, BBL, BBR, InstL, InstR, sn_mapL, sn_mapR, tryInline, pc,
          result, argL, argR, hist>>

-----------------------------------------------------------------------------
(* Types.  A type is named by a string; the operators below give its shape. *)

IntTypes == {"i1", "i8", "i32", "i64"}
PtrTypes == {"ptr", "ptr1", "pT1", "pT2", "pU1"}
ArrayTypes == {"a4i8", "a4i32", "a8i32", "a2a4i8", "a2a4i32"}
StructTypes == {"T1", "T2", "U1"}
Types == IntTypes \cup PtrTypes \cup ArrayTypes \cup StructTypes
            \cup {"float", "void", "label"}

isIntegerTy(t) == t \in IntTypes
isArrayTy(t) == t \in ArrayTypes
isStructTy(t) == t \in StructTypes
isPointerTy(t) == t \in PtrTypes

getBitWidth(t) ==
    CASE t = "i1" -> 1 [] t = "i8" -> 8 [] t = "i32" -> 32 [] t = "i64" -> 64

getNumElements(t) ==
    CASE t \in {"a4i8", "a4i32"} -> 4
      [] t = "a8i32" -> 8
      [] t \in {"a2a4i8", "a2a4i32"} -> 2

getElementType(t) ==
    CASE t = "a4i8" -> "i8"
      [] t \in {"a4i32", "a8i32"} -> "i32"
      [] t = "a2a4i8" -> "a4i8"
      [] t = "a2a4i32" -> "a4i32"

getAddressSpace(t) == IF t = "ptr1" THEN 1 ELSE 0

\* The type a pointer points to ("void" when it is no aggregate).
getPointerElementType(t) ==
    CASE t = "pT1" -> "T1" [] t = "pT2" -> "T2" [] t = "pU1" -> "U1"
      [] OTHER -> "void"

\* The declared name of an aggregate type: T1 and T2 are two versions of T.
getStructName(t) ==
    CASE t \in {"T1", "T2"} -> "T" [] t = "U1" -> "U"

\* The fields of an aggregate type, in order.
StructElements(t) ==
    CASE t = "T1" -> <<"i32", "i64", "a4i32">>
      [] t = "T2" -> <<"i64", "i32", "i64", "a4i32">>
      [] t = "U1" -> <<"i32", "i64", "a4i32">>

\* llvm::Type::TypeID, as far as the order of the kinds matters.
getTypeID(t) ==
    CASE t = "void" -> 0
      [] t = "float" -> 2
      [] t = "label" -> 7
      [] isIntegerTy(t) -> 11
      [] isStructTy(t) -> 13
      [] isArrayTy(t) -> 14
      [] isPointerTy(t) -> 15

cmpNumbers(L, R) == IF L < R THEN -1 ELSE IF L > R THEN 1 ELSE 0

Max(a, b) == IF a > b THEN a ELSE b

RoundUp(n, a) == ((n + a - 1) \div a) * a

-----------------------------------------------------------------------------
(* The layout oracle.  A data layout is the ABI alignment, in bytes, of a   *)
(* 64-bit integer: 8 on a 64-bit target, 4 on a 32-bit one.                 *)

Layouts == {4, 8}

RECURSIVE getABITypeAlignment(_, _)
getABITypeAlignment(DL, t) ==
    CASE t \in {"i1", "i8"} -> 1
      [] t \in {"i32", "float"} -> 4
      [] t = "i64" \/ isPointerTy(t) -> DL
      [] isArrayTy(t) -> getABITypeAlignment(DL, getElementType(t))
      [] OTHER -> 1

RECURSIVE getTypeAllocSize(_, _)
getTypeAllocSize(DL, t) ==
    CASE t \in {"i1", "i8"} -> 1
      [] t \in {"i32", "float"} -> 4
      [] t = "i64" \/ isPointerTy(t) -> 8
      [] isArrayTy(t) ->
            getNumElements(t) * getTypeAllocSize(DL, getElementType(t))
      [] OTHER -> 0

\* Offset of field i (1-based) of an aggregate; field Len+1 is the end.
RECURSIVE getElementOffset(_, _, _)
getElementOffset(DL, t, i) ==
    IF i = 1 THEN 0
    ELSE LET prev == StructElements(t)[i - 1]
             end == getElementOffset(DL, t, i - 1) + getTypeAllocSize(DL, prev)
         IN IF i > Len(StructElements(t)) THEN end
            ELSE RoundUp(end, getABITypeAlignment(DL, StructElements(t)[i]))

RECURSIVE StructAlignment(_, _, _)
StructAlignment(DL, t, i) ==
    IF i = 0 THEN 1
    ELSE Max(getABITypeAlignment(DL, StructElements(t)[i]),
             StructAlignment(DL, t, i - 1))

\* DataLayout::getTypeStoreSize of an aggregate type.
getTypeStoreSize(DL, t) ==
    RoundUp(getElementOffset(DL, t, Len(StructElements(t)) + 1),
            StructAlignment(DL, t, Len(StructElements(t))))

-----------------------------------------------------------------------------
(* Values.  A value is named by a string and described by a record: k is   *)
(* its kind ("const", "fn", "arg", "bb" or "inst"), op the opcode of an     *)
(* instruction, ops its operands (the callee is the last operand of a       *)
(* call), side the module ("L" or "R") the value belongs to.  The tables     *)
(* below name the operands; ValueOf puts the operands themselves in place.   *)
(* Integer and null constants are unique per context and belong to no       *)
(* module.                                                                  *)

NoInfo == [k |-> "none", id |-> "", side |-> "", op |-> "", ty |-> "void", val |-> 0,
           ops |-> <<>>, pred |-> "", aty |-> "void", align |-> 0,
           name |-> "", decl |-> FALSE, alloc |-> FALSE, intr |-> ""]

VConst(ty, v) == [NoInfo EXCEPT !.k = "const", !.ty = ty, !.val = v]
VArg(ty) == [NoInfo EXCEPT !.k = "arg", !.ty = ty]
VBlock == [NoInfo EXCEPT !.k = "bb", !.ty = "label"]
\* A function: its name, its global number (functions of one name have one
\* number in both modules), whether it is only declared, whether it is an
\* allocation function, and its intrinsic ID.
VFn(name, gnum, decl, alloc, intr) ==
    [NoInfo EXCEPT !.k = "fn", !.ty = "ptr", !.val = gnum, !.name = name,
                   !.decl = decl, !.alloc = alloc, !.intr = intr]
VInst(op, ty, ops) == [NoInfo EXCEPT !.k = "inst", !.op = op, !.ty = ty, !.ops = ops]
VAlloca(aty, ops, align) ==
    [VInst("alloca", "ptr", ops) EXCEPT !.aty = aty, !.align = align]
VICmp(pred, ops) == [VInst("icmp", "i1", ops) EXCEPT !.pred = pred]
VGEP(srcTy, ops) == [VInst("gep", "ptr", ops) EXCEPT !.aty = srcTy]

CastOps == {"zext", "trunc", "bitcast", "sitofp", "inttoptr"}

Operands ==
    \* constants
       ("c0" :> VConst("i32", 0)) @@ ("c1" :> VConst("i32", 1))
    @@ ("c2" :> VConst("i32", 2)) @@ ("c3" :> VConst("i32", 3))
    @@ ("c5" :> VConst("i32", 5)) @@ ("c7" :> VConst("i32", 7))
    @@ ("c3b" :> VConst("i8", 3)) @@ ("c0b" :> VConst("i8", 0))
    @@ ("c1w" :> VConst("i64", 1))
    @@ ("false" :> VConst("i1", 0)) @@ ("true" :> VConst("i1", 1))
    @@ ("null" :> VConst("ptr", 0))
    @@ ("s28" :> VConst("i64", 28)) @@ ("s32" :> VConst("i64", 32))
    @@ ("s36" :> VConst("i64", 36)) @@ ("s40" :> VConst("i64", 40))
    \* arguments and other non-constant values
    @@ ("x" :> VArg("i32")) @@ ("y" :> VArg("i32")) @@ ("w" :> VArg("i8"))
    @@ ("n" :> VArg("i64")) @@ ("m" :> VArg("i64")) @@ ("cnd" :> VArg("i1"))
    @@ ("p" :> VArg("ptr")) @@ ("q" :> VArg("ptr")) @@ ("fl" :> VArg("float"))
    @@ ("p1" :> VArg("ptr1")) @@ ("q1" :> VArg("ptr1"))
    @@ ("qT1" :> VArg("pT1")) @@ ("qT2" :> VArg("pT2")) @@ ("qU1" :> VArg("pU1"))
    \* basic blocks
    @@ ("bbA" :> VBlock) @@ ("bbB" :> VBlock) @@ ("bbC" :> VBlock)
    \* functions: f, f2 and f3 are versions of one function named f
    @@ ("f" :> VFn("f", 1, FALSE, FALSE, ""))
    @@ ("f2" :> VFn("f", 1, FALSE, FALSE, ""))
    @@ ("f3" :> VFn("f", 1, FALSE, FALSE, ""))
    @@ ("g" :> VFn("g", 4, TRUE, FALSE, ""))
    @@ ("g3" :> VFn("g", 4, TRUE, FALSE, ""))
    @@ ("kmalloc" :> VFn("kmalloc", 6, TRUE, TRUE, ""))
    @@ ("kmalloc2" :> VFn("kmalloc", 6, TRUE, TRUE, ""))
    @@ ("memset" :> VFn("llvm.memset", 8, TRUE, FALSE, "memset"))

\* Instructions whose results are used as operands of other instructions.
Producers ==
       ("zx" :> VInst("zext", "i64", <<"x">>))
    @@ ("zw" :> VInst("zext", "i32", <<"w">>))
    @@ ("zzw" :> VInst("zext", "i64", <<"zw">>))
    @@ ("tn" :> VInst("trunc", "i32", <<"n">>))
    @@ ("sf" :> VInst("sitofp", "float", <<"x">>))
    @@ ("itp" :> VInst("inttoptr", "ptr1", <<"x">>))
    @@ ("bcT1" :> VInst("bitcast", "pT1", <<"p">>))
    @@ ("bcT2" :> VInst("bitcast", "pT2", <<"p">>))
    @@ ("bcU1" :> VInst("bitcast", "pU1", <<"p">>))
    @@ ("bq1" :> VInst("bitcast", "ptr", <<"qT1">>))
    @@ ("bq2" :> VInst("bitcast", "ptr", <<"qT2">>))
    @@ ("bqU" :> VInst("bitcast", "ptr", <<"qU1">>))
    @@ ("al_x" :> VAlloca("i32", <<"c1">>, 4))
    @@ ("al_T1" :> VAlloca("T1", <<"c1">>, 8))
    @@ ("al_T2" :> VAlloca("T2", <<"c1">>, 8))
    @@ ("al_T2b" :> VAlloca("T2", <<"c1">>, 4))
    @@ ("al_T2w" :> VAlloca("T2", <<"c1w">>, 8))
    @@ ("al_U1" :> VAlloca("U1", <<"c1">>, 8))
    @@ ("ld" :> VInst("load", "i32", <<"p">>))
    @@ ("add" :> VInst("add", "i32", <<"x", "y">>))

\* Instructions whose results are not used.  The callee "p" of call_p is a
\* pointer: an indirect call.  phi takes ld from its own block (a loop).
Consumers ==
       ("call_f" :> VInst("call", "i32", <<"x", "f">>))
    @@ ("call_g" :> VInst("call", "i32", <<"x", "g">>))
    @@ ("call_p" :> VInst("call", "i32", <<"x", "p">>))
    @@ ("call_f2" :> VInst("call", "i32", <<"x", "y", "f2">>))
    @@ ("call_f3" :> VInst("call", "i32", <<"x", "y", "false", "f3">>))
    @@ ("call_f3t" :> VInst("call", "i32", <<"x", "y", "true", "f3">>))
    @@ ("call_f3w" :> VInst("call", "i32", <<"x", "y", "cnd", "f3">>))
    @@ ("call_fyx" :> VInst("call", "i32", <<"y", "x", "f2">>))
    @@ ("call_fyxz" :> VInst("call", "i32", <<"y", "x", "false", "f3">>))
    @@ ("call_f5" :> VInst("call", "i32", <<"c5", "f">>))
    @@ ("call_f7" :> VInst("call", "i32", <<"c7", "f">>))
    @@ ("call_f5z" :> VInst("call", "i32", <<"c5", "false", "f2">>))
    @@ ("call_f7z" :> VInst("call", "i32", <<"c7", "false", "f2">>))
    @@ ("km32" :> VInst("call", "ptr", <<"s32", "kmalloc">>))
    @@ ("km40" :> VInst("call", "ptr", <<"s40", "kmalloc">>))
    @@ ("km_n" :> VInst("call", "ptr", <<"n", "kmalloc">>))
    @@ ("km32f" :> VInst("call", "ptr", <<"s32", "c1", "kmalloc2">>))
    @@ ("ms32" :> VInst("call", "void", <<"bq1", "c0b", "s32", "false", "memset">>))
    @@ ("ms40" :> VInst("call", "void", <<"bq2", "c0b", "s40", "false", "memset">>))
    @@ ("ms_n" :> VInst("call", "void", <<"bq1", "c0b", "n", "false", "memset">>))
    @@ ("ic_eq" :> VICmp("eq", <<"x", "y">>))
    @@ ("ic_eqp" :> VICmp("eq", <<"p1", "q1">>))
    @@ ("ic_slt" :> VICmp("slt", <<"x", "y">>))
    @@ ("ic_ult" :> VICmp("ult", <<"x", "y">>))
    @@ ("gep_a1" :> VGEP("T1", <<"qT1", "c0", "c0">>))
    @@ ("gep_a2" :> VGEP("T2", <<"qT2", "c0", "c1">>))
    @@ ("gep_x" :> VGEP("i32", <<"p", "x">>))
    @@ ("st" :> VInst("store", "void", <<"x", "p">>))
    @@ ("st_al" :> VInst("store", "void", <<"x", "al_x">>))
    @@ ("st_zx" :> VInst("store", "void", <<"zx", "p">>))
    @@ ("phi" :> VInst("phi", "i32", <<"ld", "x">>))
    @@ ("ret" :> VInst("ret", "void", <<"x">>))
    @@ ("ret_ld" :> VInst("ret", "void", <<"ld">>))
    @@ ("br" :> VInst("br", "void", <<"bbA">>))
    @@ ("br_c" :> VInst("br", "void", <<"cnd", "bbB", "bbC">>))
    @@ ("br_aa" :> VInst("br", "void", <<"cnd", "bbA", "bbA">>))

Val == LET all == Operands @@ Producers @@ Consumers
       IN [n \in DOMAIN all |-> [all[n] EXCEPT !.id = n]]

isConstant(v) == v.k \in {"const", "fn"}
isConstantInt(v) == v.k = "const" /\ isIntegerTy(v.ty)
isBasicBlock(v) == v.k = "bb"
isCast(v) == v.k = "inst" /\ v.op \in CastOps
isBitCast(v) == v.k = "inst" /\ v.op = "bitcast"
isAlloca(v) == v.k = "inst" /\ v.op = "alloca"
isCall(v) == v.k = "inst" /\ v.op = "call"
isICmp(v) == v.k = "inst" /\ v.op = "icmp"
isNullValue(v) == v.k = "const" /\ v.val = 0

\* The value named n as it appears in module side, its operands in place of
\* their names.
RECURSIVE ValueOf(_, _)
ValueOf(side, n) ==
    [Val[n] EXCEPT !.side = IF Val[n].k = "const" THEN "" ELSE side,
                   !.ops = [i \in DOMAIN Val[n].ops |->
                               ValueOf(side, Val[n].ops[i])]]

getNumOperands(I) == Len(I.ops)
getOperand(I, i) == I.ops[i + 1]
getCalledFunction(C) == C.ops[Len(C.ops)]
getArgOperand(C, i) == getOperand(C, i)
getNumArgOperands(C) == Len(C.ops) - 1

-----------------------------------------------------------------------------
(* Serial-number maps: DenseMap<const Value *, int>, keyed by value name.   *)

EmptyMap == [v \in {} |-> 0]
snSize(m) == Cardinality(DOMAIN m)
\* sn_map.insert(std::make_pair(V, sn_map.size())): no effect when V is there.
snInsert(m, v) == IF v \in DOMAIN m THEN m ELSE m @@ (v :> snSize(m))
snErase(m, v) == [u \in DOMAIN m \ {v} |-> m[u]]
\* The key of a value: its address, which is its module and its name.
snKey(V) == V.side \o ":" \o V.id

-----------------------------------------------------------------------------
(* Types and integer constants.                                             *)

\* if (int Res = ...) return Res; and then the rest.
orElse(Res, Rest) == IF Res # 0 THEN Res ELSE Rest

RECURSIVE cmpTypes(_, _)

RECURSIVE cmpTypeSeqs(_, _, _)
cmpTypeSeqs(EL, ER, i) ==
    IF i > Len(EL) THEN 0
    ELSE orElse(cmpTypes(EL[i], ER[i]), cmpTypeSeqs(EL, ER, i + 1))

\* A pointer of address space 0 is compared as the integer of its width.
coercePointer(Ty) ==
    IF isPointerTy(Ty) /\ getAddressSpace(Ty) = 0 THEN "i64" ELSE Ty

cmpCoercedTypes(TyL, TyR) ==
    IF TyL = TyR THEN 0
    ELSE IF getTypeID(TyL) # getTypeID(TyR)
      THEN cmpNumbers(getTypeID(TyL), getTypeID(TyR))
    ELSE IF isIntegerTy(TyL)
      THEN cmpNumbers(getBitWidth(TyL), getBitWidth(TyR))
    ELSE IF isPointerTy(TyL)
      THEN cmpNumbers(getAddressSpace(TyL), getAddressSpace(TyR))
    ELSE IF isStructTy(TyL)
      THEN IF Len(StructElements(TyL)) # Len(StructElements(TyR))
           THEN cmpNumbers(Len(StructElements(TyL)), Len(StructElements(TyR)))
           ELSE cmpTypeSeqs(StructElements(TyL), StructElements(TyR), 1)
    ELSE IF isArrayTy(TyL)
      THEN IF getNumElements(TyL) # getNumElements(TyR)
           THEN cmpNumbers(getNumElements(TyL), getNumElements(TyR))
           ELSE cmpTypes(getElementType(TyL), getElementType(TyR))
    ELSE 0

\* LLVM's FunctionComparator::cmpTypes.  The elements of an array or an
\* aggregate are compared by the overriding cmpTypes.
FC_cmpTypes(L, R) == cmpCoercedTypes(coercePointer(L), coercePointer(R))

cmpTypes(L, R) ==
    IF isIntegerTy(L) /\ isIntegerTy(R) /\ controlFlowOnly THEN 0
    ELSE IF ~isArrayTy(L) \/ ~isArrayTy(R) \/ ~controlFlowOnly
      THEN FC_cmpTypes(L, R)
    ELSE cmpTypes(getElementType(L), getElementType(R))

\* LLVM's FunctionComparator::cmpAPInts: the bit widths, then the values.
FC_cmpAPInts(L, R) ==
    IF getBitWidth(L.ty) # getBitWidth(R.ty)
    THEN cmpNumbers(getBitWidth(L.ty), getBitWidth(R.ty))
    ELSE cmpNumbers(L.val, R.val)

cmpAPIntsOverride(L, R, Result) ==
    IF ~controlFlowOnly \/ Result = 0 THEN Result
    ELSE cmpNumbers(L.val, R.val)

cmpAPInts(L, R) == cmpAPIntsOverride(L, R, FC_cmpAPInts(L, R))

-----------------------------------------------------------------------------
(* Values.  A comparison of values returns its result with the serial maps  *)
(* it leaves: [res, snL, snR].                                              *)

noChange(res, snL, snR) == [res |-> res, snL |-> snL, snR |-> snR]

cmpConstantsOfTypes(L, R, TypesRes) ==
    IF TypesRes # 0 THEN TypesRes
    ELSE IF isNullValue(L) /\ isNullValue(R) THEN TypesRes
    ELSE IF isNullValue(L) THEN 1
    ELSE IF isNullValue(R) THEN -1
    ELSE IF L.k = "fn" /\ R.k = "fn" THEN cmpNumbers(L.val, R.val)
    ELSE IF L.k # R.k THEN IF L.k = "fn" THEN 1 ELSE -1
    ELSE cmpAPInts(L, R)

\* LLVM's FunctionComparator::cmpConstants, for the constants of the model:
\* the types, null values, global values by their global number, integers.
FC_cmpConstants(L, R) == cmpConstantsOfTypes(L, R, cmpTypes(L.ty, R.ty))

cmpSerialNumbers(L, R, mL, mR) ==
    noChange(cmpNumbers(mL[snKey(L)], mR[snKey(R)]), mL, mR)

\* LLVM's FunctionComparator::cmpValues: constants by cmpConstants, any other
\* value by the serial number it has or now gets on its side.
FC_cmpValues(L, R, snL, snR) ==
    IF isConstant(L) /\ isConstant(R)
    THEN noChange(IF L = R THEN 0 ELSE FC_cmpConstants(L, R), snL, snR)
    ELSE IF isConstant(L) THEN noChange(1, snL, snR)
    ELSE IF isConstant(R) THEN noChange(-1, snL, snR)
    ELSE cmpSerialNumbers(L, R, snInsert(snL, snKey(L)), snInsert(snR, snKey(R)))

\* The textual form of a constant (Utils: valueAsString).
valueAsString(C) == IF isConstantInt(C) THEN ToString(C.val) ELSE ""

\* The repair of the serial maps after two basic blocks compared unequal.
repairBlockNumbers(L, R, r) ==
    IF snSize(r.snL) # snSize(r.snR)
    THEN noChange(0,
                  IF r.snL[snKey(L)] = snSize(r.snL) - 1
                  THEN snErase(r.snL, snKey(L)) ELSE r.snL,
                  IF r.snR[snKey(R)] = snSize(r.snR) - 1
                  THEN snErase(r.snR, snKey(R)) ELSE r.snR)
    ELSE noChange(0, r.snL, r.snR)

\* The override with the macro table consulted before the baseline result:
\* a constant with an entry is equal to the text of its entry only.
cmpValuesMacroFirst(L, R, r) ==
    IF isConstant(L) /\ isConstant(R) /\ L.id \in DOMAIN MacroConstantMap
      THEN noChange(IF MacroConstantMap[L.id] = valueAsString(R) THEN 0 ELSE 1,
                    r.snL, r.snR)
    ELSE IF r.res # 0 /\ isBasicBlock(L) /\ isBasicBlock(R)
      THEN repairBlockNumbers(L, R, r)
    ELSE r

\* What cmpValues makes of the result r of the baseline comparison.
cmpValuesOverride(L, R, r) ==
    IF r.res = 0 THEN r
    ELSE IF isConstant(L) /\ isConstant(R)
      THEN IF /\ L.id \in DOMAIN MacroConstantMap
              /\ MacroConstantMap[L.id] = valueAsString(R)
           THEN noChange(0, r.snL, r.snR)
           ELSE r
    ELSE IF isBasicBlock(L) /\ isBasicBlock(R)
      THEN repairBlockNumbers(L, R, r)
    ELSE r

RECURSIVE cmpValues(_, _, _, _)
cmpValues(L, R, snL, snR) ==
    IF controlFlowOnly /\ isCast(L) /\ isCast(R)
      THEN cmpValues(getOperand(L, 0), getOperand(R, 0), snL, snR)
    ELSE IF controlFlowOnly /\ isCast(L)
      THEN cmpValues(getOperand(L, 0), R, snL, snR)
    ELSE IF controlFlowOnly /\ isCast(R)
      THEN cmpValues(L, getOperand(R, 0), snL, snR)
    ELSE cmpValuesOverride(L, R, FC_cmpValues(L, R, snL, snR))

-----------------------------------------------------------------------------
(* Composite accesses (GEPs).  Operand 0 is the pointer, the others are the *)
(* indices; aty is the source element type.                                 *)

getNumIndices(G) == Len(G.ops) - 1
getPointerAddressSpace(G) == getAddressSpace(getOperand(G, 0).ty)
hasAllConstantIndices(G) ==
    \A i \in 1..getNumIndices(G) : isConstantInt(getOperand(G, i))

\* CompositeType::getTypeAtIndex
getTypeAtIndex(t, idx) ==
    IF isStructTy(t) THEN StructElements(t)[idx + 1] ELSE getElementType(t)

\* GetElementPtrInst::getIndexedType(source type, the first n indices): the
\* first index steps over the pointer and selects no member.
RECURSIVE getIndexedType(_, _)
getIndexedType(G, n) ==
    IF n <= 1 THEN G.aty
    ELSE getTypeAtIndex(getIndexedType(G, n - 1), getOperand(G, n).val)

AllocSizeOf(DL, t) ==
    IF isStructTy(t) THEN getTypeStoreSize(DL, t) ELSE getTypeAllocSize(DL, t)

\* GEPOperator::accumulateConstantOffset, for all-constant indices: the
\* offset in bytes of indices i.. applied to type t.
RECURSIVE constantOffset(_, _, _, _)
constantOffset(DL, G, t, i) ==
    IF i > getNumIndices(G) THEN 0
    ELSE IF i = 1
      THEN getOperand(G, i).val * AllocSizeOf(DL, t)
              + constantOffset(DL, G, t, 2)
    ELSE IF isStructTy(t)
      THEN getElementOffset(DL, t, getOperand(G, i).val + 1)
              + constantOffset(DL, G, getTypeAtIndex(t, getOperand(G, i).val),
                               i + 1)
    ELSE getOperand(G, i).val * AllocSizeOf(DL, getElementType(t))
              + constantOffset(DL, G, getElementType(t), i + 1)

\* The constant offset of a GEP as the 64-bit integer that is compared.
offsetAPInt(DL, G) ==
    [ty |-> "i64", val |-> constantOffset(DL, G, G.aty, 1)]

\* Operands i .. e-1 of L and R compared pairwise by cmpValues, up to the
\* first pair that differs.
RECURSIVE cmpOperandRange(_, _, _, _, _, _)
cmpOperandRangeFrom(L, R, i, e, r) ==
    IF r.res # 0 THEN r
    ELSE cmpOperandRange(L, R, i + 1, e, r.snL, r.snR)

cmpOperandRange(L, R, i, e, snL, snR) ==
    IF i >= e THEN noChange(0, snL, snR)
    ELSE cmpOperandRangeFrom(L, R, i, e,
            cmpValues(getOperand(L, i), getOperand(R, i), snL, snR))

cmpGEPOperands(GEPL, GEPR, TypesRes, snL, snR) ==
    IF TypesRes # 0 THEN noChange(TypesRes, snL, snR)
    ELSE IF getNumOperands(GEPL) # getNumOperands(GEPR)
      THEN noChange(cmpNumbers(getNumOperands(GEPL), getNumOperands(GEPR)),
                    snL, snR)
    ELSE cmpOperandRange(GEPL, GEPR, 0, getNumOperands(GEPL), snL, snR)

\* LLVM's FunctionComparator::cmpGEPs: address spaces, then the constant
\* byte offsets under the left module's layout when both have one, else the
\* source types, the operand counts and the operands.
FC_cmpGEPs(GEPL, GEPR, snL, snR) ==
    IF getPointerAddressSpace(GEPL) # getPointerAddressSpace(GEPR)
      THEN noChange(cmpNumbers(getPointerAddressSpace(GEPL),
                               getPointerAddressSpace(GEPR)), snL, snR)
    ELSE IF hasAllConstantIndices(GEPL) /\ hasAllConstantIndices(GEPR)
      THEN noChange(cmpAPInts(offsetAPInt(LayoutL, GEPL),
                              offsetAPInt(LayoutL, GEPR)), snL, snR)
    ELSE cmpGEPOperands(GEPL, GEPR, cmpTypes(GEPL.aty, GEPR.aty), snL, snR)

\* Whether the debug info names the members indexed on both sides alike.
sameMemberName(ValueTypeL, NumericIndexL, ValueTypeR, NumericIndexR) ==
    /\ <<ValueTypeL, NumericIndexL>> \in DOMAIN StructFieldNames
    /\ <<ValueTypeR, NumericIndexR>> \in DOMAIN StructFieldNames
    /\ StructFieldNames[<<ValueTypeL, NumericIndexL>>]
          = StructFieldNames[<<ValueTypeR, NumericIndexR>>]

\* The body of the loop of cmpGEPs for one pair of indices: Res is what
\* cmpValues says of the pair, Rest the result of the pairs after it.
cmpGEPIndex(ValueTypeL, ValueTypeR, NumericIndexL, NumericIndexR, Res, Rest) ==
    IF ~isStructTy(ValueTypeL) \/ ~isStructTy(ValueTypeR)
      THEN orElse(Res, Rest)
    ELSE IF ~sameMemberName(ValueTypeL, NumericIndexL,
                            ValueTypeR, NumericIndexR)
      THEN orElse(Res, Rest)
    ELSE Rest

\* The loop of cmpGEPs over the index pairs, from pair i on.  The indices
\* are constants: comparing them leaves the serial maps alone.
RECURSIVE cmpGEPIndices(_, _, _, _, _)
cmpGEPIndices(GEPL, GEPR, i, snL, snR) ==
    IF i > getNumIndices(GEPL) \/ i > getNumIndices(GEPR) THEN 0
    ELSE cmpGEPIndex(getIndexedType(GEPL, i - 1), getIndexedType(GEPR, i - 1),
                     getOperand(GEPL, i).val, getOperand(GEPR, i).val,
                     cmpValues(getOperand(GEPL, i), getOperand(GEPR, i),
                               snL, snR).res,
                     cmpGEPIndices(GEPL, GEPR, i + 1, snL, snR))

\* What cmpGEPs makes of the result orig of the baseline comparison.
cmpGEPsOverride(GEPL, GEPR, orig) ==
    IF orig.res = 0 THEN orig
    ELSE IF ~isStructTy(GEPL.aty) \/ ~isStructTy(GEPR.aty) THEN orig
    ELSE IF getStructName(GEPL.aty) # getStructName(GEPR.aty) THEN orig
    ELSE IF getPointerAddressSpace(GEPL) # getPointerAddressSpace(GEPR)
      THEN noChange(cmpNumbers(getPointerAddressSpace(GEPL),
                               getPointerAddressSpace(GEPR)),
                    orig.snL, orig.snR)
    ELSE IF getNumIndices(GEPL) # getNumIndices(GEPR)
      THEN noChange(cmpNumbers(getNumIndices(GEPL), getNumIndices(GEPR)),
                    orig.snL, orig.snR)
    ELSE IF hasAllConstantIndices(GEPL) /\ hasAllConstantIndices(GEPR)
      THEN noChange(cmpGEPIndices(GEPL, GEPR, 1, orig.snL, orig.snR),
                    orig.snL, orig.snR)
    ELSE IF getNumIndices(GEPL) = 1 /\ getNumIndices(GEPR) = 1
      THEN cmpValues(getOperand(GEPL, 1), getOperand(GEPR, 1),
                     orig.snL, orig.snR)
    ELSE orig

cmpGEPs(GEPL, GEPR, snL, snR) ==
    cmpGEPsOverride(GEPL, GEPR, FC_cmpGEPs(GEPL, GEPR, snL, snR))

-----------------------------------------------------------------------------
(* The state a comparison reads and writes: the serial maps, the inline-    *)
(* request slot with the number of times it was assigned, whether undefined *)
(* behaviour was executed (ubExec) and whether the run crashed.             *)
(*                                                                          *)
(* Undefined behaviour (a member read through the null pointer that a       *)
(* failed dyn_cast or getCalledFunction returns) has the outcome ub: the run *)
(* crashes, or the reads yield some values (val for the first read, val2    *)
(* for the second) and the run goes on.                                     *)

UBOutcomes ==
    {[crash |-> TRUE, val |-> 1, val2 |-> 1]}
        \cup {[crash |-> FALSE, val |-> v, val2 |-> w] : v, w \in {0, 1}}

withMaps(st, r) == [st EXCEPT !.snL = r.snL, !.snR = r.snR]

withUB(st, s) == [st EXCEPT !.ubExec = @ \/ s.ubExec, !.crash = s.crash]

setTryInline(st, F) ==
    [st EXCEPT !.tryInline = snKey(F), !.writes = @ + 1]

\* The aggregate a pointer value points to, also through a bitcast of such
\* a pointer; "void" when there is none (Utils: getStructType).
getStructType(V) ==
    IF ~isPointerTy(V.ty) THEN "void"
    ELSE IF isStructTy(getPointerElementType(V.ty))
      THEN getPointerElementType(V.ty)
    ELSE IF isBitCast(V) /\ isStructTy(getPointerElementType(getOperand(V, 0).ty))
      THEN getPointerElementType(getOperand(V, 0).ty)
    ELSE "void"

\* Whether a function allocates memory (Utils: isAllocFunction).
isAllocFunction(F) == F.alloc

\* dyn_cast<ConstantInt>(Const)->getZExtValue() reads through null when Const
\* is no integer constant: the run crashes, or compares the garbage read.
cmpStructTypeSizeWithConstant(Type, Const, crash, garbage) ==
    IF isConstantInt(Const)
    THEN [res |-> IF Const.val # getTypeStoreSize(LayoutL, Type) THEN 1 ELSE 0,
          ubExec |-> FALSE, crash |-> FALSE]
    ELSE [res |-> garbage, ubExec |-> TRUE, crash |-> crash]

\* STyL->getStructName() != STyR->getStructName(), after the right size sR.
cmpStructNames(STyL, STyR, sR, st) ==
    IF sR.crash \/ sR.res # 0 THEN [res |-> 1, st |-> withUB(st, sR)]
    ELSE [res |-> IF getStructName(STyL) # getStructName(STyR) THEN 1 ELSE 0,
          st |-> withUB(st, sR)]

\* The right size and the names, after the left size sL.
cmpSizeR(STyL, STyR, ConstR, sL, st, ub) ==
    IF sL.crash \/ sL.res # 0 THEN [res |-> 1, st |-> withUB(st, sL)]
    ELSE cmpStructNames(STyL, STyR,
            cmpStructTypeSizeWithConstant(STyR, ConstR, ub.crash, ub.val2),
            withUB(st, sL))

\* !STyL || !STyR || size(L) || size(R) || names differ, left to right.
cmpSizesAndNames(STyL, ConstL, STyR, ConstR, st, ub) ==
    IF STyL = "void" \/ STyR = "void" THEN [res |-> 1, st |-> st]
    ELSE cmpSizeR(STyL, STyR, ConstR,
            cmpStructTypeSizeWithConstant(STyL, ConstL, ub.crash, ub.val),
            st, ub)

\* cmpAllocs after the comparison v of the allocated sizes.
cmpAllocsOfSizes(CL, CR, NextL, NextR, v, st, ub) ==
    IF v.res = 0 THEN [res |-> 0, st |-> withMaps(st, v)]
    ELSE IF ~isBitCast(NextL) \/ ~isBitCast(NextR)
      THEN [res |-> 1, st |-> withMaps(st, v)]
    ELSE IF ~isConstantInt(getOperand(CL, 0)) \/ ~isConstantInt(getOperand(CR, 0))
      THEN [res |-> 1, st |-> withMaps(st, v)]
    ELSE cmpSizesAndNames(getStructType(NextL), getOperand(CL, 0),
                          getStructType(NextR), getOperand(CR, 0),
                          withMaps(st, v), ub)

\* NextL and NextR are CL->getNextNode() and CR->getNextNode().
cmpAllocs(CL, CR, NextL, NextR, st, ub) ==
    cmpAllocsOfSizes(CL, CR, NextL, NextR,
        cmpValues(getOperand(CL, 0), getOperand(CR, 0), st.snL, st.snR),
        st, ub)

\* The first loop of cmpMemset: every argument but the size, from i on.
RECURSIVE cmpMemsetArgs(_, _, _, _, _)
cmpMemsetArgsFrom(CL, CR, i, r) ==
    IF r.res # 0 THEN r
    ELSE cmpMemsetArgs(CL, CR, i + 1, r.snL, r.snR)

cmpMemsetArgs(CL, CR, i, snL, snR) ==
    IF i >= getNumArgOperands(CL) THEN noChange(0, snL, snR)
    ELSE IF i = 2 THEN cmpMemsetArgs(CL, CR, i + 1, snL, snR)
    ELSE cmpMemsetArgsFrom(CL, CR, i,
            cmpValues(getArgOperand(CL, i), getArgOperand(CR, i), snL, snR))

\* cmpMemset after the comparison v of the sizes to set.
cmpMemsetOfSizes(CL, CR, v, st, ub) ==
    IF v.res = 0 THEN [res |-> 0, st |-> withMaps(st, v)]
    ELSE cmpSizesAndNames(getStructType(getOperand(CL, 0)), getOperand(CL, 2),
                          getStructType(getOperand(CR, 0)), getOperand(CR, 2),
                          withMaps(st, v), ub)

\* cmpMemset after the comparison a of the other arguments.
cmpMemsetOfArgs(CL, CR, a, st, ub) ==
    IF a.res # 0 THEN [res |-> a.res, st |-> withMaps(st, a)]
    ELSE cmpMemsetOfSizes(CL, CR,
            cmpValues(getArgOperand(CL, 2), getArgOperand(CR, 2), a.snL, a.snR),
            st, ub)

cmpMemset(CL, CR, st, ub) ==
    cmpMemsetOfArgs(CL, CR, cmpMemsetArgs(CL, CR, 0, st.snL, st.snR), st, ub)

\* The loop of cmpCallsWithExtraArg over the arguments of the shorter call:
\* the types of a pair, then its values.
RECURSIVE cmpCallArgs(_, _, _, _, _, _)
cmpCallArgsFrom(CallExtraArg, CallOther, i, e, r) ==
    IF r.res # 0 THEN r
    ELSE cmpCallArgs(CallExtraArg, CallOther, i + 1, e, r.snL, r.snR)

cmpCallArg(CallExtraArg, CallOther, i, e, TypesRes, snL, snR) ==
    IF TypesRes # 0 THEN noChange(TypesRes, snL, snR)
    ELSE cmpCallArgsFrom(CallExtraArg, CallOther, i, e,
            cmpValues(getOperand(CallExtraArg, i), getOperand(CallOther, i),
                      snL, snR))

cmpCallArgs(CallExtraArg, CallOther, i, e, snL, snR) ==
    IF i = e THEN noChange(0, snL, snR)
    ELSE cmpCallArg(CallExtraArg, CallOther, i, e,
            cmpTypes(getOperand(CallExtraArg, i).ty, getOperand(CallOther, i).ty),
            snL, snR)

\* cmpCallsWithExtraArg once the longer call is told from the other one.
\* TypesRes compares the return types, a the arguments.
cmpExtraArgCall(LastOp, TypesRes, a, st) ==
    IF ~isConstant(LastOp) THEN [res |-> 1, st |-> st]
    ELSE IF ~isNullValue(LastOp) THEN [res |-> 1, st |-> st]
    ELSE IF TypesRes # 0 THEN [res |-> TypesRes, st |-> st]
    ELSE [res |-> a.res, st |-> withMaps(st, a)]

cmpCallsWithExtraArgOf(CallExtraArg, CallOther, st) ==
    cmpExtraArgCall(
        getOperand(CallExtraArg, getNumOperands(CallExtraArg) - 2),
        cmpTypes(CallExtraArg.ty, CallOther.ty),
        cmpCallArgs(CallExtraArg, CallOther, 0, getNumOperands(CallOther) - 1,
                    st.snL, st.snR),
        st)

cmpCallsWithExtraArg(CL, CR, st) ==
    IF getNumOperands(CL) > getNumOperands(CR)
    THEN cmpCallsWithExtraArgOf(CL, CR, st)
    ELSE cmpCallsWithExtraArgOf(CR, CL, st)

-----------------------------------------------------------------------------
(* Operations.  cmpOperations returns its result, the needToCmpOperands     *)
(* flag and the state it leaves: [res, need, st].                           *)

getOpcode(I) ==
    CASE I.op = "ret" -> 1 [] I.op = "br" -> 2 [] I.op = "add" -> 11
      [] I.op = "alloca" -> 29 [] I.op = "load" -> 30 [] I.op = "store" -> 31
      [] I.op = "gep" -> 32 [] I.op = "trunc" -> 36 [] I.op = "zext" -> 37
      [] I.op = "sitofp" -> 42 [] I.op = "inttoptr" -> 46
      [] I.op = "bitcast" -> 47 [] I.op = "icmp" -> 51 [] I.op = "phi" -> 53
      [] I.op = "call" -> 54

\* CmpInst::Predicate
getPredicate(I) ==
    CASE I.pred = "eq" -> 32 [] I.pred = "ne" -> 33
      [] I.pred = "ugt" -> 34 [] I.pred = "ult" -> 36
      [] I.pred = "sgt" -> 38 [] I.pred = "slt" -> 40

getUnsignedPredicate(I) ==
    CASE I.pred = "sgt" -> "ugt" [] I.pred = "slt" -> "ult" [] OTHER -> I.pred

RECURSIVE cmpOperandTypes(_, _, _)
cmpOperandTypes(L, R, i) ==
    IF i >= getNumOperands(L) THEN 0
    ELSE orElse(cmpTypes(getOperand(L, i).ty, getOperand(R, i).ty),
                cmpOperandTypes(L, R, i + 1))

\* The state special to an instruction: the allocated type and the
\* alignment of an alloca, the predicate of a comparison.
cmpSpecialState(L, R) ==
    IF isAlloca(L)
      THEN orElse(cmpTypes(L.aty, R.aty), cmpNumbers(L.align, R.align))
    ELSE IF isICmp(L) THEN cmpNumbers(getPredicate(L), getPredicate(R))
    ELSE 0

\* The result of the baseline for instructions of one opcode, no GEPs.
cmpPlainOperation(L, R) ==
    IF getNumOperands(L) # getNumOperands(R)
      THEN cmpNumbers(getNumOperands(L), getNumOperands(R))
    ELSE orElse(cmpTypes(L.ty, R.ty),
                orElse(cmpOperandTypes(L, R, 0), cmpSpecialState(L, R)))

withoutOperands(r) ==
    [res |-> r.res, need |-> FALSE, snL |-> r.snL, snR |-> r.snR]

\* The baseline for two GEPs, after the comparison ptr of their pointers.
cmpGEPOperation(GEPL, GEPR, ptr) ==
    IF ptr.res # 0 THEN withoutOperands(ptr)
    ELSE withoutOperands(cmpGEPs(GEPL, GEPR, ptr.snL, ptr.snR))

\* LLVM's FunctionComparator::cmpOperations: the opcodes; for GEPs the
\* pointers and cmpGEPs, without operand comparison; else the operand
\* counts, the result types, the operand types and the special state.
FC_cmpOperations(L, R, snL, snR) ==
    IF getOpcode(L) # getOpcode(R)
      THEN [res |-> cmpNumbers(getOpcode(L), getOpcode(R)), need |-> TRUE,
            snL |-> snL, snR |-> snR]
    ELSE IF L.op = "gep"
      THEN cmpGEPOperation(L, R,
              cmpValues(getOperand(L, 0), getOperand(R, 0), snL, snR))
    ELSE [res |-> cmpPlainOperation(L, R), need |-> TRUE,
          snL |-> snL, snR |-> snR]

\* abs(CL->getNumOperands() - CR->getNumOperands()): the difference of two
\* unsigned 32-bit numbers wraps around when negative, and read as an int it
\* is the difference again.
absOperandDifference(CL, CR) ==
    IF getNumOperands(CL) < getNumOperands(CR)
    THEN getNumOperands(CR) - getNumOperands(CL)
    ELSE getNumOperands(CL) - getNumOperands(CR)

\* The end of cmpOperations: the overrides of a baseline inequality for
\* integer comparisons and for stack allocations of a same-named aggregate.
cmpOperationsTail(L, R, Result, need, st) ==
    IF Result = 0 THEN [res |-> Result, need |-> need, st |-> st]
    ELSE IF /\ controlFlowOnly /\ isICmp(L) /\ isICmp(R)
            /\ getUnsignedPredicate(L) = getUnsignedPredicate(R)
      THEN [res |-> 0, need |-> need, st |-> st]
    ELSE IF /\ isAlloca(L) /\ isAlloca(R)
            /\ isStructTy(L.aty) /\ isStructTy(R.aty)
            /\ getStructName(L.aty) = getStructName(R.aty)
      THEN [res |-> cmpNumbers(L.align, R.align), need |-> need, st |-> st]
    ELSE [res |-> Result, need |-> need, st |-> st]

\* The extra-argument comparison without the flag being cleared.
keepingOperandsOf(e) == [res |-> e.res, need |-> TRUE, st |-> e.st]

\* needToCmpOperands = false; return <the result of the special comparison>
withoutOperandsOf(e) == [res |-> e.res, need |-> FALSE, st |-> e.st]

\* Two calls of functions of one name: the extra-argument comparison, else
\* the inline request and the end of cmpOperations.
cmpExtraArgCalls(CL, CR, Result, need, st) ==
    IF Result # 0 /\ controlFlowOnly /\ absOperandDifference(CL, CR) = 1
      THEN withoutOperandsOf(cmpCallsWithExtraArg(CL, CR, st))
    ELSE cmpOperationsTail(CL, CR, Result, need,
            IF Result # 0 /\ ~getCalledFunction(CL).decl
            THEN setTryInline(st, getCalledFunction(CL)) ELSE st)

\* After the result m of cmpMemset.
afterMemset(CL, CR, Result, need, m) ==
    IF m.st.crash THEN [res |-> 1, need |-> FALSE, st |-> m.st]
    ELSE IF m.res = 0 THEN [res |-> 0, need |-> FALSE, st |-> m.st]
    ELSE cmpExtraArgCalls(CL, CR, Result, need, m.st)

cmpMemsetCalls(CL, CR, Result, need, st, ub) ==
    IF /\ getCalledFunction(CL).intr = "memset"
       /\ getCalledFunction(CR).intr = "memset"
      THEN afterMemset(CL, CR, Result, need, cmpMemset(CL, CR, st, ub))
    ELSE cmpExtraArgCalls(CL, CR, Result, need, st)

\* After the result a of cmpAllocs.
afterAllocs(CL, CR, Result, need, a, ub) ==
    IF a.res = 0 THEN [res |-> 0, need |-> FALSE, st |-> a.st]
    ELSE cmpMemsetCalls(CL, CR, Result, need, a.st, ub)

\* cmpOperations for two calls of functions of one name.
cmpCallsOfSameName(CL, CR, NextL, NextR, Result, need, st, ub) ==
    IF isAllocFunction(getCalledFunction(CL))
      THEN afterAllocs(CL, CR, Result, need,
                       cmpAllocs(CL, CR, NextL, NextR, st, ub), ub)
    ELSE cmpMemsetCalls(CL, CR, Result, need, st, ub)

\* cmpOperations when just one of the instructions is a call.  The callee of
\* an indirect call is null, and isDeclaration() is read through it: the run
\* crashes, or goes on with the garbage read and, when that says "defined",
\* assigns the null callee to the inline-request slot.
cmpCallOf(L, R, Called, Result, need, st, ub) ==
    IF Called.k = "fn"
      THEN cmpOperationsTail(L, R, Result, need,
              IF Called.decl THEN st ELSE setTryInline(st, Called))
    ELSE IF ub.crash
      THEN [res |-> 1, need |-> need,
            st |-> [st EXCEPT !.ubExec = TRUE, !.crash = TRUE]]
    ELSE cmpOperationsTail(L, R, Result, need,
            IF ub.val = 1 THEN [st EXCEPT !.ubExec = TRUE]
            ELSE [st EXCEPT !.ubExec = TRUE, !.tryInline = "",
                            !.writes = @ + 1])

cmpCallWithOther(L, R, Result, need, st, ub) ==
    cmpCallOf(L, R, getCalledFunction(IF isCall(L) THEN L ELSE R),
              Result, need, st, ub)

\* What cmpOperations makes of the result b of the baseline comparison.
cmpOperationsOverride(L, R, NextL, NextR, b, st, ub) ==
    IF isCall(L) /\ isCall(R)
    THEN IF /\ getCalledFunction(L).k = "fn" /\ getCalledFunction(R).k = "fn"
            /\ getCalledFunction(L).name = getCalledFunction(R).name
         THEN cmpCallsOfSameName(L, R, NextL, NextR, b.res, b.need,
                                 withMaps(st, b), ub)
         ELSE cmpOperationsTail(L, R, b.res, b.need, withMaps(st, b))
    ELSE IF isCall(L) \/ isCall(R)
    THEN cmpCallWithOther(L, R, b.res, b.need, withMaps(st, b), ub)
    ELSE cmpOperationsTail(L, R, b.res, b.need, withMaps(st, b))

cmpOperations(L, R, NextL, NextR, st, ub) ==
    cmpOperationsOverride(L, R, NextL, NextR,
                          FC_cmpOperations(L, R, st.snL, st.snR), st, ub)

\* Check if the given operation can be ignored.
mayIgnore(Inst) == isAlloca(Inst) \/ isCast(Inst)

-----------------------------------------------------------------------------
(* Basic blocks.  cmpBasicBlocks is a loop over the instruction pairs; one  *)
(* iteration of the loop is one step.  Builds with assertions abort at a    *)
(* failed assertion, builds without (NDEBUG) go on.                         *)

markTypesBroken(v) == [v EXCEPT !.typesBroken = TRUE]

\* The operand loop of cmpBasicBlocks, from pair i on: typesBroken tells that
\* the assertion on the types of a pair failed, abort that the run stopped
\* there.  r is what cmpValues says of pair i.
RECURSIVE cmpOperands(_, _, _, _, _, _)
cmpOperandPair(L, R, i, r, ndebug) ==
    IF r.res # 0
    THEN [res |-> r.res, snL |-> r.snL, snR |-> r.snR,
          typesBroken |-> FALSE, abort |-> FALSE]
    ELSE IF cmpTypes(getOperand(L, i).ty, getOperand(R, i).ty) = 0
      THEN cmpOperands(L, R, i + 1, r.snL, r.snR, ndebug)
    ELSE IF ndebug
      THEN markTypesBroken(cmpOperands(L, R, i + 1, r.snL, r.snR, ndebug))
    ELSE [res |-> 0, snL |-> r.snL, snR |-> r.snR,
          typesBroken |-> TRUE, abort |-> TRUE]

cmpOperands(L, R, i, snL, snR, ndebug) ==
    IF i >= getNumOperands(L)
    THEN [res |-> 0, snL |-> snL, snR |-> snR,
          typesBroken |-> FALSE, abort |-> FALSE]
    ELSE cmpOperandPair(L, R, i,
            cmpValues(getOperand(L, i), getOperand(R, i), snL, snR), ndebug)

getNextNode(BB, i) == IF i < Len(BB) THEN BB[i + 1] ELSE NoInfo

\* The outcome of an iteration that ends the run at a fault; o is what
\* cmpOperations returned.
faultAt(o) ==
    [pc |-> "fault", result |-> 0, InstL |-> InstL, InstR |-> InstR,
     snL |-> o.st.snL, snR |-> o.st.snR, o |-> o, skip |-> FALSE,
     typesBroken |-> FALSE, parityBroken |-> FALSE]

\* return Res
returnOf(o, Res, snL, snR) ==
    [faultAt(o) EXCEPT !.pc = "done", !.result = Res, !.snL = snL, !.snR = snR]

\* The end of an iteration that moved the cursors to iL and iR, and what
\* follows the loop: it goes on while both cursors are inside their blocks.
afterIteration(o, iL, iR, snL, snR, skip, typesBroken) ==
    [faultAt(o) EXCEPT
        !.pc = IF iL <= Len(BBL) /\ iR <= Len(BBR) THEN "loop" ELSE "done",
        !.result = IF iL <= Len(BBL) /\ iR <= Len(BBR) THEN 0
                   ELSE IF iL <= Len(BBL) /\ iR > Len(BBR) THEN 1
                   ELSE IF iL > Len(BBL) /\ iR <= Len(BBR) THEN -1
                   ELSE 0,
        !.InstL = iL, !.InstR = iR, !.snL = snL, !.snR = snR,
        !.skip = skip, !.typesBroken = typesBroken]

\* The iteration after its operand loop returned v.
afterOperands(o, v) ==
    IF v.abort
      THEN [faultAt(o) EXCEPT !.snL = v.snL, !.snR = v.snR,
                              !.typesBroken = TRUE]
    ELSE IF v.res # 0 THEN returnOf(o, v.res, v.snL, v.snR)
    ELSE afterIteration(o, InstL + 1, InstR + 1, v.snL, v.snR, FALSE,
                        v.typesBroken)

\* The iteration on instructions L and R after cmpOperations returned o.
afterOperations(L, R, o, ndebug) ==
    IF o.st.crash THEN faultAt(o)
    ELSE IF o.res # 0
      THEN IF controlFlowOnly /\ (mayIgnore(L) \/ mayIgnore(R))
           THEN afterIteration(o,
                    IF mayIgnore(L) THEN InstL + 1 ELSE InstL,
                    IF mayIgnore(L) THEN InstR ELSE InstR + 1,
                    snErase(o.st.snL, snKey(L)), snErase(o.st.snR, snKey(R)),
                    TRUE, FALSE)
           ELSE returnOf(o, o.res, o.st.snL, o.st.snR)
    ELSE IF ~o.need
      THEN afterIteration(o, InstL + 1, InstR + 1, o.st.snL, o.st.snR,
                          FALSE, FALSE)
    ELSE IF getNumOperands(L) # getNumOperands(R)
      THEN [faultAt(o) EXCEPT !.parityBroken = TRUE]
    ELSE afterOperands(o, cmpOperands(L, R, 0, o.st.snL, o.st.snR, ndebug))

\* The state a comparison function starts from.
currentState ==
    [snL |-> sn_mapL, snR |-> sn_mapR, tryInline |-> tryInline,
     writes |-> 0, ubExec |-> FALSE, crash |-> FALSE]

\* One iteration of the loop of cmpBasicBlocks at cursors InstL and InstR.
iteration(ub, ndebug) ==
    afterOperations(BBL[InstL], BBR[InstR],
        cmpOperations(BBL[InstL], BBR[InstR],
                      getNextNode(BBL, InstL), getNextNode(BBR, InstR),
                      currentState, ub),
        ndebug)

-----------------------------------------------------------------------------
(* Inputs shared by the specifications.                                     *)

\* Longest serial-number map a comparison starts from.
MaxSn == 2

\* Values that may already be numbered when a comparison starts.
NumberedValues == {"bbA", "bbB", "x"}

InjectiveSeqs(S, n) ==
    {s \in UNION {[1..k -> S] : k \in 0..n} :
        \A i, j \in DOMAIN s : i # j => s[i] # s[j]}

\* The map of a side that numbered the values of s, in this order.
snMapOf(side, s) ==
    [key \in {side \o ":" \o s[i] : i \in DOMAIN s} |->
        CHOOSE i \in 0..Len(s) : i < Len(s) /\ side \o ":" \o s[i + 1] = key]

\* Contents of the macro table: none, or the constant 5 of the left module
\* stems from a macro whose value is 7 in the right module.
MacroMaps == {[c \in {} |-> ""], [c \in {"c5"} |-> "7"]}

\* Complete field names of the aggregates of both versions.
FieldNamesAll ==
       (<<"T1", 0>> :> "a") @@ (<<"T1", 1>> :> "b") @@ (<<"T1", 2>> :> "arr")
    @@ (<<"T2", 0>> :> "n") @@ (<<"T2", 1>> :> "a") @@ (<<"T2", 2>> :> "b")
    @@ (<<"T2", 3>> :> "arr")
    @@ (<<"U1", 0>> :> "a") @@ (<<"U1", 1>> :> "b") @@ (<<"U1", 2>> :> "arr")

\* Blocks of at most n instructions: distinct instructions of Body, then a
\* terminator.
Blocks(Body, Terminators, n) ==
    {b \o <<t>> : b \in InjectiveSeqs(Body, n - 1), t \in Terminators}

\* The block of the named instructions, in module side.
InModule(side, names) == [i \in DOMAIN names |-> ValueOf(side, names[i])]

\* The instruction d of module side, named id, its operands in place of
\* their names.
Instantiate(side, id, d) ==
    [d EXCEPT !.id = id, !.side = side,
              !.ops = [i \in DOMAIN d.ops |-> ValueOf(side, d.ops[i])]]

\* Serial maps of equal size that numbered values of S.
NumberedMaps(S) ==
    {<<snMapOf("L", ss[1]), snMapOf("R", ss[2])>> :
        ss \in {tt \in InjectiveSeqs(S, MaxSn) \X InjectiveSeqs(S, MaxSn) :
                   Len(tt[1]) = Len(tt[2])}}

\* What a run starts from and what is observed of it: the serial maps at
\* the start (snL0, snR0), the instructions inserted in a block (extras), and
\* what the comparison did.
NoHist == [kind |-> "", ndebug |-> FALSE, writes |-> 0, ubExec |-> FALSE,
           typesBroken |-> FALSE, parityBroken |-> FALSE, skips |-> 0,
           extras |-> {}, matchedExtra |-> FALSE, operands |-> FALSE,
           snL0 |-> EmptyMap, snR0 |-> EmptyMap, base |-> 0, need |-> TRUE,
           argsRes |-> 0, sizesRes |-> 0]

-----------------------------------------------------------------------------
(* Specification of the Value and Type Comparators applied on their own:   *)
(* cmpValues(argL, argR) and cmpTypes of their types, from serial maps of   *)
(* equal size that numbered values of the same kinds.                       *)

ComparedValues ==
    {"c3", "c3b", "c5", "c7", "null", "x", "y", "zx", "zw", "zzw", "sf",
     "al_x", "bbA", "bbB", "bbC", "f", "f2"}

InitValues ==
    /\ controlFlowOnly \in BOOLEAN
    /\ MacroConstantMap \in MacroMaps
    /\ StructFieldNames = FieldNamesAll
    /\ LayoutL = 8 /\ LayoutR = 8
    /\ BBL = <<>> /\ BBR = <<>> /\ InstL = 1 /\ InstR = 1
    /\ tryInline = "" /\ pc = "start" /\ result = 0
    /\ argL \in {ValueOf("L", a) : a \in ComparedValues}
    /\ argR \in {ValueOf("R", b) : b \in ComparedValues}
    /\ \E sL, sR \in InjectiveSeqs(NumberedValues, MaxSn) :
          /\ Len(sL) = Len(sR)
          /\ \A i \in DOMAIN sL : Val[sL[i]].k = Val[sR[i]].k
          /\ sn_mapL = snMapOf("L", sL)
          /\ sn_mapR = snMapOf("R", sR)
    /\ hist = [NoHist EXCEPT !.kind = "values",
                             !.snL0 = sn_mapL, !.snR0 = sn_mapR]

CmpValues ==
    /\ pc = "start"
    /\ \E r \in {cmpValues(argL, argR, sn_mapL, sn_mapR)} :
          /\ result' = r.res
          /\ sn_mapL' = r.snL
          /\ sn_mapR' = r.snR
    /\ pc' = "cmpValues"
    /\ UNCHANGED <<controlFlowOnly, StructFieldNames, MacroConstantMap,
                   LayoutL, LayoutR, BBL, BBR, InstL, InstR, tryInline,
                   argL, argR, hist>>

CmpTypes ==
    /\ pc = "start"
    /\ result' = cmpTypes(argL.ty, argR.ty)
    /\ pc' = "cmpTypes"
    /\ UNCHANGED <<controlFlowOnly, StructFieldNames, MacroConstantMap,
                   LayoutL, LayoutR, BBL, BBR, InstL, InstR, sn_mapL,
                   sn_mapR, tryInline, argL, argR, hist>>

NextValues == CmpValues \/ CmpTypes

SpecValues == InitValues /\ [][NextValues]_vars

\* C8: two block references compared from serial maps of equal size leave
\* maps of equal size, and every entry the maps held before is still there.
C8_MapsStaySynchronized ==
    (pc = "cmpValues" /\ isBasicBlock(argL) /\ isBasicBlock(argR)) =>
        /\ snSize(sn_mapL) = snSize(sn_mapR)
        /\ DOMAIN hist.snL0 \subseteq DOMAIN sn_mapL
        /\ DOMAIN hist.snR0 \subseteq DOMAIN sn_mapR

-----------------------------------------------------------------------------
(* Specifications of cmpBasicBlocks.  They differ in the blocks compared.   *)

InitCommon ==
    /\ controlFlowOnly \in BOOLEAN
    /\ LayoutL = 8 /\ LayoutR = 8
    /\ InstL = 1 /\ InstR = 1
    /\ tryInline = "" /\ pc = "start" /\ result = 0

\* BasicBlock::const_iterator InstL = BBL->begin(), InstR = BBR->begin()
Begin ==
    /\ pc = "start"
    /\ Len(BBL) > 0 /\ Len(BBR) > 0
    /\ InstL' = 1 /\ InstR' = 1
    /\ pc' = "loop"
    /\ UNCHANGED <<controlFlowOnly, StructFieldNames, MacroConstantMap,
                   LayoutL, LayoutR, BBL, BBR, sn_mapL, sn_mapR, tryInline,
                   result, argL, argR, hist>>

\* The step to the outcome n of an iteration.
Advance(n) ==
    /\ pc' = n.pc
    /\ result' = n.result
    /\ InstL' = n.InstL
    /\ InstR' = n.InstR
    /\ sn_mapL' = n.snL
    /\ sn_mapR' = n.snR
    /\ tryInline' = n.o.st.tryInline
    /\ hist' = [hist EXCEPT
           !.writes = @ + n.o.st.writes,
           !.ubExec = @ \/ n.o.st.ubExec,
           !.typesBroken = @ \/ n.typesBroken,
           !.parityBroken = @ \/ n.parityBroken,
           !.skips = @ + (IF n.skip THEN 1 ELSE 0),
           !.matchedExtra = @ \/ /\ \/ snKey(BBL[InstL]) \in hist.extras
                                     \/ snKey(BBR[InstR]) \in hist.extras
                                  /\ n.o.res = 0
                                  /\ ~n.o.st.crash,
           !.operands = @ \/ (n.o.res = 0 /\ n.o.need /\ ~n.o.st.crash)]

\* One iteration of the do-while loop, and the return once the loop ends.
Iterate ==
    /\ pc = "loop"
    /\ \E ub \in UBOutcomes : Advance(iteration(ub, hist.ndebug))
    /\ UNCHANGED <<controlFlowOnly, StructFieldNames, MacroConstantMap,
                   LayoutL, LayoutR, BBL, BBR, argL, argR>>

NextBlocks == Begin \/ Iterate

\* Any two blocks of at most MaxTotal instructions together.
MaxTotal == 5
AnyBody == {"call_f", "call_g", "al_x", "zx", "ic_eq", "ic_eqp", "st"}
AnyTerminators == {"ret"}

InitBlocks ==
    /\ InitCommon
    /\ MacroConstantMap = [c \in {} |-> ""]
    /\ StructFieldNames = FieldNamesAll
    /\ \E bL, bR \in Blocks(AnyBody, AnyTerminators, MaxTotal - 1) :
          /\ Len(bL) + Len(bR) <= MaxTotal
          /\ BBL = InModule("L", bL)
          /\ BBR = InModule("R", bR)
    /\ sn_mapL = EmptyMap /\ sn_mapR = EmptyMap
    /\ argL = NoInfo /\ argR = NoInfo
    /\ \E nd \in BOOLEAN : hist = [NoHist EXCEPT !.kind = "any", !.ndebug = nd]

SpecBlocks == InitBlocks /\ [][NextBlocks]_vars

C9_TypesAgreeAfterValues == ~hist.typesBroken

\* C11: one comparison of two blocks assigns the inline-request slot at
\* most once, skips and retries included.
C11_WrittenAtMostOnce == hist.writes <= 1

-----------------------------------------------------------------------------
(* A block against itself with allocas or casts inserted.                   *)

\* Most instructions of a block before any is inserted; most insertions.
MaxBaseLen == 3
MaxExtras == 2

\* phi takes the result of ld, a later instruction of its block (a loop).
BaseBody == {"phi", "ld", "st", "call_f"}
BaseTerminators == {"ret", "ret_ld"}
Extras == {"al_T1", "zw"}

InsertAt(b, i, e) == SubSeq(b, 1, i - 1) \o <<e>> \o SubSeq(b, i, Len(b))

Range(b) == {b[i] : i \in DOMAIN b}

\* The blocks made of b by at most n insertions before its last instruction.
RECURSIVE WithExtras(_, _)
WithExtras(b, n) ==
    IF n = 0 THEN {b}
    ELSE WithExtras(b, n - 1) \cup
         UNION {{InsertAt(c, i, e) : i \in 1..Len(c), e \in Extras \ Range(c)} :
                    c \in WithExtras(b, n - 1)}

InitExtras ==
    /\ InitCommon
    /\ MacroConstantMap = [c \in {} |-> ""]
    /\ StructFieldNames = FieldNamesAll
    /\ sn_mapL = EmptyMap /\ sn_mapR = EmptyMap
    /\ argL = NoInfo /\ argR = NoInfo
    /\ \E b \in Blocks(BaseBody, BaseTerminators, MaxBaseLen),
          side \in {"L", "R"}, nd \in BOOLEAN :
         \E c \in WithExtras(b, MaxExtras) \ {b} :
          /\ BBL = InModule("L", IF side = "L" THEN c ELSE b)
          /\ BBR = InModule("R", IF side = "R" THEN c ELSE b)
          /\ hist = [NoHist EXCEPT
                        !.kind = "extras", !.ndebug = nd,
                        !.extras = {side \o ":" \o e : e \in Range(c) \ Range(b)}]

SpecExtras == InitExtras /\ [][NextBlocks]_vars

\* C2: a block compared with itself plus inserted allocas or casts, none of
\* which matched the instruction it was paired with, compares equal in
\* control-flow-only mode and not equal outside of it.
C2_ExtrasAreSkipped ==
    (pc \in {"done", "fault"} /\ ~hist.matchedExtra) =>
        /\ pc = "done"
        /\ controlFlowOnly => result = 0
        /\ ~controlFlowOnly => result # 0

-----------------------------------------------------------------------------
(* cmpMemset applied on its own to two calls of memset.                     *)

MemsetDests == {"bq1", "bq2", "bqU", "p"}
MemsetSizes == {"s32", "s40", "n", "m"}

\* call void @llvm.memset(dst, i8 0, size, i1 false)
MemsetCall(side, dst, size) ==
    Instantiate(side, "ms_" \o dst \o "_" \o size,
                VInst("call", "void", <<dst, "c0b", size, "false", "memset">>))

InitMemset ==
    /\ controlFlowOnly \in BOOLEAN
    /\ MacroConstantMap = [c \in {} |-> ""]
    /\ StructFieldNames = FieldNamesAll
    /\ LayoutL \in Layouts /\ LayoutR = LayoutL
    /\ BBL = <<>> /\ BBR = <<>> /\ InstL = 1 /\ InstR = 1
    /\ tryInline = "" /\ pc = "start" /\ result = 0
    /\ argL \in {MemsetCall("L", d, z) : d \in MemsetDests, z \in MemsetSizes}
    /\ argR \in {MemsetCall("R", d, z) : d \in MemsetDests, z \in MemsetSizes}
    /\ \E maps \in NumberedMaps({"n", "m"}) :
          /\ sn_mapL = maps[1]
          /\ sn_mapR = maps[2]
    /\ hist = [NoHist EXCEPT !.kind = "memset",
                             !.snL0 = sn_mapL, !.snR0 = sn_mapR]

\* What the size arguments compare as, after the other arguments compared
\* as a.
sizesAfter(a) ==
    IF a.res # 0 THEN 0
    ELSE cmpValues(getArgOperand(argL, 2), getArgOperand(argR, 2),
                   a.snL, a.snR).res

\* The step of a comparison of argL and argR applied on its own, to position
\* at: it returned r, and its first comparison of operands returned a.
Returned(r, a, at) ==
    /\ result' = r.res
    /\ sn_mapL' = r.st.snL
    /\ sn_mapR' = r.st.snR
    /\ tryInline' = r.st.tryInline
    /\ pc' = IF r.st.crash THEN "fault" ELSE at
    /\ hist' = [hist EXCEPT !.ubExec = r.st.ubExec, !.writes = r.st.writes,
                            !.argsRes = a.res,
                            !.sizesRes = IF at = "cmpMemset" THEN sizesAfter(a)
                                         ELSE a.res]

CmpMemset ==
    /\ pc = "start"
    /\ \E ub \in UBOutcomes :
          Returned(cmpMemset(argL, argR, currentState, ub),
                   cmpMemsetArgs(argL, argR, 0, sn_mapL, sn_mapR),
                   "cmpMemset")
    /\ UNCHANGED <<controlFlowOnly, StructFieldNames, MacroConstantMap,
                   LayoutL, LayoutR, BBL, BBR, InstL, InstR, argL, argR>>

NextMemset == CmpMemset

SpecMemset == InitMemset /\ [][NextMemset]_vars

\* C3: two memset calls whose other arguments compare equal and whose sizes
\* do not, one of the sizes being no constant, compare not equal, without a
\* fault and without the size of an aggregate being compared with a value
\* that is no constant.
C3_NoFaultForNonConstantSizes ==
    (/\ pc \in {"cmpMemset", "fault"}
     /\ hist.argsRes = 0 /\ hist.sizesRes # 0
     /\ \/ ~isConstant(getArgOperand(argL, 2))
        \/ ~isConstant(getArgOperand(argR, 2)))
        => (pc = "cmpMemset" /\ result # 0 /\ ~hist.ubExec)

-----------------------------------------------------------------------------
(* cmpAllocs applied on its own to two calls of kmalloc, each the first     *)
(* instruction of its block.                                                *)

AllocSizes == {"s28", "s32", "s36", "s40", "n"}
AfterAlloc == {"bcT1", "bcT2", "bcU1", "zx"}

\* call ptr @kmalloc(size)
KmallocCall(side, size) ==
    Instantiate(side, "km_" \o size, VInst("call", "ptr", <<size, "kmalloc">>))

InitAllocs ==
    /\ controlFlowOnly \in BOOLEAN
    /\ MacroConstantMap = [c \in {} |-> ""]
    /\ StructFieldNames = FieldNamesAll
    /\ LayoutL \in Layouts /\ LayoutR \in Layouts
    /\ InstL = 1 /\ InstR = 1
    /\ tryInline = "" /\ pc = "start" /\ result = 0
    /\ BBL \in {<<KmallocCall("L", z), ValueOf("L", c), ValueOf("L", "ret")>> :
                    z \in AllocSizes, c \in AfterAlloc}
    /\ BBR \in {<<KmallocCall("R", z), ValueOf("R", c), ValueOf("R", "ret")>> :
                    z \in AllocSizes, c \in AfterAlloc}
    /\ sn_mapL = EmptyMap /\ sn_mapR = EmptyMap
    /\ argL = BBL[1] /\ argR = BBR[1]
    /\ hist = [NoHist EXCEPT !.kind = "allocs"]

CmpAllocs ==
    /\ pc = "start"
    /\ \E ub \in UBOutcomes :
          Returned(cmpAllocs(argL, argR, getNextNode(BBL, 1),
                             getNextNode(BBR, 1), currentState, ub),
                   cmpValues(getOperand(argL, 0), getOperand(argR, 0),
                             sn_mapL, sn_mapR),
                   "cmpAllocs")
    /\ UNCHANGED <<controlFlowOnly, StructFieldNames, MacroConstantMap,
                   LayoutL, LayoutR, BBL, BBR, InstL, InstR, argL, argR>>

NextAllocs == CmpAllocs

SpecAllocs == InitAllocs /\ [][NextAllocs]_vars

\* C4: two allocations of constant sizes that differ, each followed by a
\* cast to a pointer to an aggregate, the aggregates having one name, compare
\* equal exactly when each size is the size of its side's aggregate under
\* its side's data layout.
C4_SizesUnderOwnLayout ==
    (/\ pc \in {"cmpAllocs", "fault"}
     /\ isConstantInt(getOperand(argL, 0)) /\ isConstantInt(getOperand(argR, 0))
     /\ hist.argsRes # 0
     /\ isBitCast(BBL[2]) /\ isBitCast(BBR[2])
     /\ getStructType(BBL[2]) # "void" /\ getStructType(BBR[2]) # "void"
     /\ getStructName(getStructType(BBL[2])) = getStructName(getStructType(BBR[2])))
        => /\ pc = "cmpAllocs"
           /\ result = 0 <=>
                /\ getOperand(argL, 0).val
                      = getTypeStoreSize(LayoutL, getStructType(BBL[2]))
                /\ getOperand(argR, 0).val
                      = getTypeStoreSize(LayoutR, getStructType(BBR[2]))

-----------------------------------------------------------------------------
(* cmpGEPs applied on its own to two member accesses.                       *)

\* The pointer argument to an aggregate, the constant of a member's index and
\* the index of the array member of an aggregate.
PointerTo(t) == CASE t = "T1" -> "qT1" [] t = "T2" -> "qT2" [] t = "U1" -> "qU1"
MemberIndices(t) == {"c" \o ToString(i) : i \in 0..(Len(StructElements(t)) - 1)}
ArrayMember(t) == IF t = "T2" THEN "c3" ELSE "c2"

\* Index lists of accesses to aggregate t: an element of the pointer and a
\* member of it, or an element of its array member.
IndexLists(t) ==
    {<<l, m>> : l \in {"c0", "c1"}, m \in MemberIndices(t)}
        \cup {<<l, ArrayMember(t), e>> : l \in {"c0", "c1"},
                                         e \in {"c0", "c1", "x"}}

NameOf(idx) ==
    IF Len(idx) = 2 THEN idx[1] \o idx[2] ELSE idx[1] \o idx[2] \o idx[3]

\* getelementptr t, ptr, idx...
GEPsOf(side) ==
    {Instantiate(side, "gep_" \o ti[1] \o "_" \o NameOf(ti[2]),
                 VGEP(ti[1], <<PointerTo(ti[1])>> \o ti[2])) :
        ti \in UNION {{<<t, idx>> : idx \in IndexLists(t)} : t \in StructTypes}}

\* Field names of the aggregates but for those of T2, and no field names.
FieldNamesNoT2 ==
    [k \in {j \in DOMAIN FieldNamesAll : j[1] # "T2"} |-> FieldNamesAll[k]]
FieldNamesNone == [k \in {} |-> ""]

InitGEPs ==
    /\ controlFlowOnly \in BOOLEAN
    /\ MacroConstantMap = [c \in {} |-> ""]
    /\ StructFieldNames \in {FieldNamesAll, FieldNamesNoT2, FieldNamesNone}
    /\ LayoutL = 8 /\ LayoutR = 8
    /\ BBL = <<>> /\ BBR = <<>> /\ InstL = 1 /\ InstR = 1
    /\ tryInline = "" /\ pc = "start" /\ result = 0
    /\ argL \in GEPsOf("L")
    /\ argR \in GEPsOf("R")
    /\ sn_mapL = EmptyMap /\ sn_mapR = EmptyMap
    /\ hist = [NoHist EXCEPT !.kind = "geps"]

CmpGEPs ==
    /\ pc = "start"
    /\ \E r \in {cmpGEPs(argL, argR, sn_mapL, sn_mapR)} :
          /\ result' = r.res
          /\ sn_mapL' = r.snL
          /\ sn_mapR' = r.snR
    /\ hist' = [hist EXCEPT
                  !.base = FC_cmpGEPs(argL, argR, sn_mapL, sn_mapR).res]
    /\ pc' = "cmpGEPs"
    /\ UNCHANGED <<controlFlowOnly, StructFieldNames, MacroConstantMap,
                   LayoutL, LayoutR, BBL, BBR, InstL, InstR, tryInline,
                   argL, argR>>

NextGEPs == CmpGEPs

SpecGEPs == InitGEPs /\ [][NextGEPs]_vars

\* Whether the pair of indices i of argL and argR is acceptable: the first
\* index steps over the pointer, the others select from the type that the
\* indices before them reach.
C5_Acceptable(i) ==
    IF i = 1 \/ ~isStructTy(getIndexedType(argL, i - 1))
             \/ ~isStructTy(getIndexedType(argR, i - 1))
    THEN getOperand(argL, i).val = getOperand(argR, i).val
    ELSE \/ sameMemberName(getIndexedType(argL, i - 1), getOperand(argL, i).val,
                           getIndexedType(argR, i - 1), getOperand(argR, i).val)
         \/ getOperand(argL, i).val = getOperand(argR, i).val

\* C5: two accesses with constant indices, as many on both sides, into
\* aggregates of one name, that the baseline tells apart, compare equal
\* exactly when every pair of indices is acceptable: equal, or selecting
\* members of an aggregate that the debug info names alike.
C5_FieldRenameTolerance ==
    (/\ pc = "cmpGEPs"
     /\ hasAllConstantIndices(argL) /\ hasAllConstantIndices(argR)
     /\ getNumIndices(argL) = getNumIndices(argR)
     /\ getStructName(argL.aty) = getStructName(argR.aty)
     /\ hist.base # 0)
        => (result = 0 <=> \A i \in 1..getNumIndices(argL) : C5_Acceptable(i))

-----------------------------------------------------------------------------
(* cmpOperations applied on its own to the first instructions of two       *)
(* blocks, and cmpBasicBlocks applied to the blocks.                        *)

OperationPalette ==
    {"zx", "tn", "al_x", "al_T1", "al_T2", "al_T2b", "al_T2w", "al_U1", "ld",
     "add", "call_f", "call_g", "call_p", "call_f2", "call_f3", "call_f3t",
     "call_f3w", "call_fyx", "call_fyxz", "call_f5", "call_f7", "call_f5z",
     "call_f7z", "km32", "km40", "km_n", "km32f", "ms32", "ms40", "ms_n",
     "ic_eq", "ic_eqp", "ic_slt", "ic_ult", "gep_a1", "gep_a2", "gep_x",
     "st", "phi", "br", "br_c"}

\* An instruction and a return, with a cast in between or not.
OperationBlocks(cast) ==
    {<<i, "ret">> : i \in OperationPalette}
        \cup {<<i, cast, "ret">> : i \in {"km32", "km40", "km_n", "km32f"}}

\* The serial maps after the first n of the arguments x and y were numbered.
ArgumentsNumbered(side, n) ==
    snMapOf(side, SubSeq(<<"x", "y", "w", "n", "m">>, 1, n))

InitOperations ==
    /\ InitCommon
    /\ MacroConstantMap \in MacroMaps
    /\ StructFieldNames = FieldNamesAll
    /\ BBL \in {InModule("L", b) : b \in OperationBlocks("bcT1")}
    /\ BBR \in {InModule("R", b) : b \in OperationBlocks("bcT2")}
    /\ \E n \in 0..MaxSn :
          /\ sn_mapL = ArgumentsNumbered("L", n)
          /\ sn_mapR = ArgumentsNumbered("R", n)
    /\ argL = BBL[1] /\ argR = BBR[1]
    /\ hist = [NoHist EXCEPT !.kind = "operations",
                             !.snL0 = sn_mapL, !.snR0 = sn_mapR]

\* The step of cmpOperations applied on its own: it returned r, and the
\* baseline returned b.
ReturnedOperation(r, b) ==
    /\ result' = r.res
    /\ sn_mapL' = r.st.snL
    /\ sn_mapR' = r.st.snR
    /\ tryInline' = r.st.tryInline
    /\ pc' = IF r.st.crash THEN "fault" ELSE "cmpOperations"
    /\ hist' = [hist EXCEPT !.ubExec = r.st.ubExec, !.writes = r.st.writes,
                            !.need = r.need, !.base = b.res]

CmpOperations ==
    /\ pc = "start"
    /\ \E ub \in UBOutcomes :
          ReturnedOperation(
              cmpOperations(argL, argR, getNextNode(BBL, 1), getNextNode(BBR, 1),
                            currentState, ub),
              FC_cmpOperations(argL, argR, sn_mapL, sn_mapR))
    /\ UNCHANGED <<controlFlowOnly, StructFieldNames, MacroConstantMap,
                   LayoutL, LayoutR, BBL, BBR, InstL, InstR, argL, argR>>

NextOperations == CmpOperations \/ Begin \/ Iterate

SpecOperations == InitOperations /\ [][NextOperations]_vars

\* The call with the extra argument and the other call.
C7_Longer == IF getNumOperands(argL) > getNumOperands(argR) THEN argL ELSE argR
C7_Shorter == IF getNumOperands(argL) > getNumOperands(argR) THEN argR ELSE argL

\* The last argument of the call with the extra argument.
C7_Extra == getOperand(C7_Longer, getNumOperands(C7_Longer) - 2)

\* The extra argument is a null constant, the result types are equal, and
\* the other arguments are pairwise equal by type and, from the serial maps
\* at the start, by value.
C7_Tolerated ==
    /\ isConstant(C7_Extra) /\ isNullValue(C7_Extra)
    /\ cmpTypes(argL.ty, argR.ty) = 0
    /\ \A i \in 0..(getNumOperands(C7_Shorter) - 2) :
          cmpTypes(getOperand(argL, i).ty, getOperand(argR, i).ty) = 0
    /\ cmpOperandRange(argL, argR, 0, getNumOperands(C7_Shorter) - 1,
                       hist.snL0, hist.snR0).res = 0

\* C7: in control-flow-only mode two calls of functions of one name that
\* the baseline tells apart, one with one operand more, compare without
\* operand comparison, whichever side has the extra argument: equal when
\* the extra argument is tolerated, and not equal when it is a constant
\* other than null or no constant.
C7_ExtraArgumentTolerance ==
    (/\ pc \in {"cmpOperations", "fault"}
     /\ controlFlowOnly
     /\ isCall(argL) /\ isCall(argR)
     /\ getCalledFunction(argL).k = "fn" /\ getCalledFunction(argR).k = "fn"
     /\ getCalledFunction(argL).name = getCalledFunction(argR).name
     /\ hist.base # 0
     /\ absOperandDifference(argL, argR) = 1)
        => /\ pc = "cmpOperations"
           /\ ~hist.need
           /\ C7_Tolerated => result = 0
           /\ (~isConstant(C7_Extra) \/ ~isNullValue(C7_Extra)) => result # 0

\* C10: whenever cmpOperations returns equal with operand comparison still
\* needed, the two instructions have as many operands: the assertion of
\* cmpBasicBlocks on the operand counts never fails.
C10_OperandCountParity ==
    /\ (pc = "cmpOperations" /\ result = 0 /\ hist.need)
          => getNumOperands(argL) = getNumOperands(argR)
    /\ ~hist.parityBroken

\* Two instructions that the baseline tells apart were compared equal with
\* operand comparison needed, and their operands were compared.
C10_Witness ==
    /\ pc = "done" /\ result = 0
    /\ hist.operands
    /\ isICmp(argL) /\ isICmp(argR) /\ argL.pred # argR.pred

-----------------------------------------------------------------------------
(* A block, a value and a type compared against themselves: both sides are  *)
(* of one module, and both serial maps numbered the same values alike.      *)

\* Most instructions of a block compared against itself.
MaxSelfLen == 3

SelfBody ==
    {"km32", "km_n", "bcT1", "ms_n", "zx", "al_T1", "call_f5", "call_p",
     "gep_a1", "ic_slt", "st_zx", "phi"}
SelfTerminators == {"ret", "br_c", "br_aa"}

\* The values compared against themselves: values of the tables, and an
\* argument of every type.
SelfValues ==
    {ValueOf("L", a) : a \in ComparedValues}
        \cup {Instantiate("L", "v_" \o t, VArg(t)) : t \in Types \ {"void", "label"}}

\* The values numbered before the comparison, in this order.
SelfNumbered == <<"p", "bbB", "x", "n">>

InitSelf ==
    /\ InitCommon
    /\ MacroConstantMap \in MacroMaps
    /\ StructFieldNames \in {FieldNamesAll, FieldNamesNone}
    /\ \E n \in {0, MaxSn} :
          /\ sn_mapL = snMapOf("L", SubSeq(SelfNumbered, 1, n))
          /\ sn_mapR = sn_mapL
    /\ \/ /\ BBL \in {InModule("L", b) :
                          b \in Blocks(SelfBody, SelfTerminators, MaxSelfLen)}
          /\ argL = NoInfo
       \/ /\ BBL = <<>>
          /\ argL \in SelfValues
    /\ BBR = BBL /\ argR = argL
    /\ hist = [NoHist EXCEPT !.kind = "self",
                             !.snL0 = sn_mapL, !.snR0 = sn_mapR]

CmpValuesOfSelf == argL # NoInfo /\ CmpValues

CmpTypesOfSelf == argL # NoInfo /\ CmpTypes

NextSelf == Begin \/ Iterate \/ CmpValuesOfSelf \/ CmpTypesOfSelf

SpecSelf == InitSelf /\ [][NextSelf]_vars

\* C6: a block, a value and a type compared against themselves compare
\* equal, and the comparison does not fault.
C6_Reflexivity ==
    /\ pc \in {"done", "cmpValues", "cmpTypes"} => result = 0
    /\ pc # "fault"

\* A block with an allocation and the cast of its result was compared
\* against itself to the end.
C6_Witness ==
    /\ pc = "done" /\ result = 0 /\ hist.kind = "self"
    /\ Len(BBL) = 3
    /\ isCall(BBL[1]) /\ isAllocFunction(getCalledFunction(BBL[1]))
    /\ isBitCast(BBL[2])

-----------------------------------------------------------------------------
(* Attribute lists.  A list is the sequence of its attribute sets: the set  *)
(* of the function first (AttributeList::FunctionIndex), then the set of    *)
(* the return value, then the sets of the parameters.  A list built by the  *)
(* compiler ends with a set that is not empty.                              *)

InlineAttrs == {"alwaysinline", "inlinehint", "noinline"}
AttrKinds == InlineAttrs \cup {"nounwind"}

getNumAttrSets(AS) == Len(AS)

\* AttributeList::getAttributes(i): the empty set beyond the end.
getAttributes(AS, i) == IF i \in DOMAIN AS THEN AS[i] ELSE {}

hasAttributes(AS, i) == getAttributes(AS, i) # {}

\* AttributeList::removeAttribute: the list itself when the attribute is
\* not there; otherwise a list of as many sets, the last of which may now
\* be empty.
removeAttribute(AS, Idx, Kind) ==
    IF Kind \notin getAttributes(AS, Idx) THEN AS
    ELSE [AS EXCEPT ![Idx] = @ \ {Kind}]

cleanAttributes(AS, Idx) ==
    removeAttribute(
        removeAttribute(removeAttribute(AS, Idx, "alwaysinline"),
                        Idx, "inlinehint"),
        Idx, "noinline")

\* The order of two attribute sets, by the kinds they hold.
AttrWeight(k) ==
    CASE k = "alwaysinline" -> 1 [] k = "inlinehint" -> 2
      [] k = "noinline" -> 4 [] k = "nounwind" -> 8

RECURSIVE SetWeight(_)
SetWeight(S) ==
    IF S = {} THEN 0
    ELSE LET k == CHOOSE a \in S : TRUE IN AttrWeight(k) + SetWeight(S \ {k})

RECURSIVE cmpAttrSetsFrom(_, _, _)
cmpAttrSetsFrom(L, R, i) ==
    IF i > getNumAttrSets(L) THEN 0
    ELSE orElse(cmpNumbers(SetWeight(getAttributes(L, i)),
                           SetWeight(getAttributes(R, i))),
                cmpAttrSetsFrom(L, R, i + 1))

\* FunctionComparator::cmpAttrs: the numbers of sets, then the sets of every
\* index of L.
FC_cmpAttrs(L, R) ==
    orElse(cmpNumbers(getNumAttrSets(L), getNumAttrSets(R)),
           cmpAttrSetsFrom(L, R, 1))

\* The loop over the indices of L from i on: LNew and RNew after it.
RECURSIVE cleanedFrom(_, _, _, _)
cleanedFrom(LNew, RNew, i, e) ==
    IF i > e THEN [L |-> LNew, R |-> RNew]
    ELSE cleanedFrom(cleanAttributes(LNew, i),
                     IF hasAttributes(RNew, i) THEN cleanAttributes(RNew, i)
                     ELSE RNew,
                     i + 1, e)

\* The two lists that cmpAttrs hands to the baseline.
cleaned(L, R) == cleanedFrom(L, R, 1, getNumAttrSets(L))

cmpAttrsOf(n) == FC_cmpAttrs(n.L, n.R)

cmpAttrs(L, R) == cmpAttrsOf(cleaned(L, R))

\* Most attribute sets of a list, and most attributes of a set.
MaxAttrSets == 2
MaxAttrs == 2

AttrSets == {S \in SUBSET AttrKinds : Cardinality(S) <= MaxAttrs}

AttrLists ==
    {AS \in UNION {[1..n -> AttrSets] : n \in 0..MaxAttrSets} :
        Len(AS) > 0 => AS[Len(AS)] # {}}

InitAttrs ==
    /\ InitCommon
    /\ MacroConstantMap = [c \in {} |-> ""]
    /\ StructFieldNames = FieldNamesAll
    /\ BBL = <<>> /\ BBR = <<>>
    /\ sn_mapL = EmptyMap /\ sn_mapR = EmptyMap
    /\ argL \in AttrLists /\ argR \in AttrLists
    /\ hist = [NoHist EXCEPT !.kind = "attrs"]

CmpAttrs ==
    /\ pc = "start"
    /\ result' = cmpAttrs(argL, argR)
    /\ pc' = "cmpAttrs"
    /\ UNCHANGED <<controlFlowOnly, StructFieldNames, MacroConstantMap,
                   LayoutL, LayoutR, BBL, BBR, InstL, InstR, sn_mapL,
                   sn_mapR, tryInline, argL, argR, hist>>

NextAttrs == CmpAttrs

SpecAttrs == InitAttrs /\ [][NextAttrs]_vars

\* The attribute sets of AS without the inlining annotations, index by
\* index; an index beyond the end holds the empty set.
C12_Stripped(AS, i) == getAttributes(AS, i) \ InlineAttrs

C12_NoInlineAttrs(AS) == \A i \in DOMAIN AS : AS[i] \cap InlineAttrs = {}

\* C12: two attribute lists that are identical once the inlining
\* annotations are removed from every index compare equal, and the lists
\* handed to the baseline hold no inlining annotation.
C12_InlineAttrsIgnored ==
    (/\ pc = "cmpAttrs"
     /\ \A i \in 1..MaxAttrSets : C12_Stripped(argL, i) = C12_Stripped(argR, i))
        => /\ result = 0
           /\ C12_NoInlineAttrs(cleaned(argL, argR).L)
           /\ C12_NoInlineAttrs(cleaned(argL, argR).R)

====
